---- MODULE Spec2Model ----
(***************************************************************************)
(* Model of the isle runtime core:                                         *)
(*   - EntityRegistry  (src/src/registry/entity_registry.rs)               *)
(*   - EventRegistry   (src/src/registry/event_registry.rs)                *)
(*   - StateQueue      (src/traits/src/lib.rs, declaration only)           *)
(***************************************************************************)
EXTENDS Integers, Sequences, FiniteSets, TLC

\* ---------------------------------------------------------------- bounds
MaxTagList == 3

\* entity keys (String), component types (TypeId) and component values
Entities == {"test_entity_1", "test_entity_2"}
Tags == {"i32", "i64", "f32"}
Values == {1, 2}

\* event types (TypeId) and subscription filters (Option<F>, F = Vec<TypeId>)
MaxSubs == 3
EventTypes == {"MyEvent", "TickEvent", "i32"}

\* StateQueue: producers calling stage, total stage calls, component value range
NumProducers == 2
MaxStage == 3
ValueMod == 8

Producers == 1..NumProducers

VARIABLES entities, components, last,     \* EntityRegistry and its last call
          registry, subscribed, evlast,   \* EventRegistry, registration log, last call
          value, staged, lock,            \* a component: its value, its queue, the queue's guard
          pc, pending, seen, nstaged,     \* per producer: position in stage, argument, read, calls made
          cpc, snapshot,                  \* commit: position, mutations still to apply
          hist                            \* history of the queue, for the claims

storeVars == <<entities, components, last>>
busVars == <<registry, subscribed, evlast>>
queueVars == <<value, staged, lock, pc, pending, seen, nstaged, cpc, snapshot, hist>>
vars == <<entities, components, last, registry, subscribed, evlast,
          value, staged, lock, pc, pending, seen, nstaged, cpc, snapshot, hist>>

\* ------------------------------------------------------- Option / results
None == [kind |-> "None"]
Some(x) == [kind |-> "Some", val |-> x]
Panic == [kind |-> "Panic"]

\* Sequences over S of length 0..n
SeqsUpTo(S, n) == UNION {[1..k -> S] : k \in 0..n}

TagLists == SeqsUpTo(Tags, MaxTagList)

Range(s) == {s[i] : i \in 1..Len(s)}

\* ------------------------------------------------------- std collections
\* HashMap::insert / entry().or_insert() followed by a store
HashMapInsert(m, k, v) == [x \in (DOMAIN m) \cup {k} |-> IF x = k THEN v ELSE m[x]]

EmptyMap == [x \in {} |-> x]

\* Box<dyn Any> holding a value of dynamic type ty
Box(ty, v) == [dyn |-> ty, val |-> v]

\* <dyn Any>::downcast_ref::<T>() / downcast_mut::<T>()
downcast_ref(box, T) == IF box.dyn = T THEN Some(box.val) ELSE None

\* ------------------------------------------------------- EntityRegistry
\* mutant: the entry's set is replaced by a fresh one instead of being extended
add_component_index_overwrites(comps, entity, T) ==
    HashMapInsert(comps, T, {entity})

\* add_component, lines 21-23: the reverse index after the call
add_component_index(comps, entity, T) ==
    LET set == IF T \in DOMAIN comps THEN comps[T] ELSE {}
    IN  HashMapInsert(comps, T, set \cup {entity})

\* mutant: entry().or_insert() semantics, an occupied slot keeps its old value
add_component_slot_keeps_old(ents, entity, T, component) ==
    IF <<entity, T>> \in DOMAIN ents THEN ents
    ELSE HashMapInsert(ents, <<entity, T>>, Box(T, component))

\* mutant: the entity holds one component, its slots of other types are dropped
add_component_slot_single(ents, entity, T, component) ==
    [k \in {j \in DOMAIN ents : j[1] # entity} \cup {<<entity, T>>} |->
        IF k = <<entity, T>> THEN Box(T, component) ELSE ents[k]]

\* mutant: the component is boxed under a wrapper type instead of as a T
add_component_slot_wrapped(ents, entity, T, component) ==
    HashMapInsert(ents, <<entity, T>>, Box("Wrapped", component))

\* add_component, line 25: the slot map after the call
add_component_slot(ents, entity, T, component) ==
    HashMapInsert(ents, <<entity, T>>, Box(T, component))

get_component(ents, T, entity) ==
    IF <<entity, T>> \in DOMAIN ents
    THEN downcast_ref(ents[<<entity, T>>], T)
    ELSE None

get_component_mut(ents, T, entity) ==
    IF <<entity, T>> \in DOMAIN ents
    THEN downcast_ref(ents[<<entity, T>>], T)
    ELSE None

\* mutant: a miss creates the slot (entry().or_insert) and the write lands in it
write_component_mut_creates(ents, T, entity, x) ==
    HashMapInsert(ents, <<entity, T>>, Box(T, x))

\* mutant: the write lands in every slot of type T
write_component_mut_all_of_type(ents, T, entity, x) ==
    IF get_component_mut(ents, T, entity).kind = "Some"
    THEN [k \in DOMAIN ents |-> IF k[2] = T THEN Box(T, x) ELSE ents[k]]
    ELSE ents

\* `*r = x` through the reference get_component_mut returned, if it returned one
write_component_mut(ents, T, entity, x) ==
    IF get_component_mut(ents, T, entity).kind = "Some"
    THEN [ents EXCEPT ![<<entity, T>>].val = x]
    ELSE ents

\* mutant: an unknown type yields an empty set (unwrap_or_default) instead of None
get_entities_by_component_empty(comps, T) ==
    IF T \in DOMAIN comps THEN Some(comps[T]) ELSE Some({})

get_entities_by_component(comps, T) ==
    IF T \in DOMAIN comps THEN Some(comps[T]) ELSE None

\* mutant: the loop assigns the next set instead of intersecting with it
RECURSIVE intersect_rest_assigns(_, _, _)
intersect_rest_assigns(comps, set, rest) ==
    IF Len(rest) = 0 THEN Some(set)
    ELSE IF Head(rest) \notin DOMAIN comps THEN None
    ELSE intersect_rest_assigns(comps, comps[Head(rest)], Tail(rest))

\* mutant: the loop removes the next set's members instead of intersecting
RECURSIVE intersect_rest_difference(_, _, _)
intersect_rest_difference(comps, set, rest) ==
    IF Len(rest) = 0 THEN Some(set)
    ELSE IF Head(rest) \notin DOMAIN comps THEN None
    ELSE intersect_rest_difference(comps, set \ comps[Head(rest)], Tail(rest))

\* the loop of get_entities_by_components, lines 57-59
RECURSIVE intersect_rest(_, _, _)
intersect_rest(comps, set, rest) ==
    IF Len(rest) = 0 THEN Some(set)
    ELSE IF Head(rest) \notin DOMAIN comps THEN None
    ELSE intersect_rest(comps, set \cap comps[Head(rest)], Tail(rest))

get_entities_by_components(comps, tags) ==
    IF Len(tags) = 0 THEN Panic                      \* components[0] on an empty Vec
    ELSE IF tags[1] \notin DOMAIN comps THEN None
    ELSE intersect_rest(comps, comps[tags[1]], Tail(tags))

\* ------------------------------------------------------- EventRegistry
Filters == {None, Some(<<>>), Some(<<"i32", "i64">>)}

\* mutant: the filter is not stored with the subscription
EventSubscriptionArgs_no_filter(T, cb, filter) == [ty |-> T, cb |-> cb, filter |-> None]

\* EventSubscriptionArgs(callback, filter): the wrapper closure of lines 42-46
\* captures the type T it downcasts to and the user callback cb
EventSubscriptionArgs(T, cb, filter) == [ty |-> T, cb |-> cb, filter |-> filter]

\* mutant: the new subscription is put at the front of the list
subscribe_with_filter_front(reg, T, cb, filter) ==
    LET callbacks == IF T \in DOMAIN reg THEN reg[T] ELSE <<>>
    IN  HashMapInsert(reg, T, <<EventSubscriptionArgs(T, cb, filter)>> \o callbacks)

\* mutant: the type's list is replaced by one holding only the new subscription
subscribe_with_filter_replaces(reg, T, cb, filter) ==
    HashMapInsert(reg, T, <<EventSubscriptionArgs(T, cb, filter)>>)

\* subscribe_with_filter, lines 39-49: the registry after the call
subscribe_with_filter(reg, T, cb, filter) ==
    LET callbacks == IF T \in DOMAIN reg THEN reg[T] ELSE <<>>
    IN  HashMapInsert(reg, T, Append(callbacks, EventSubscriptionArgs(T, cb, filter)))

\* the filter subscribe passes on, line 29
subscribe_filter == None

\* mutant: the wrapper calls the user callback without the downcast check
wrapper_call_unchecked(sub, evty) == <<sub.cb>>

\* the wrapper closure applied to an event of dynamic type evty: the user
\* callbacks it runs (lines 42-46)
wrapper_call(sub, evty) == IF evty = sub.ty THEN <<sub.cb>> ELSE <<>>

\* mutant: the loop skips a subscription whose filter does not name the event type
RECURSIVE run_callbacks_filtered(_, _)
run_callbacks_filtered(callbacks, evty) ==
    IF Len(callbacks) = 0 THEN <<>>
    ELSE (IF Head(callbacks).filter.kind = "Some"
             /\ evty \notin Range(Head(callbacks).filter.val)
          THEN <<>>
          ELSE wrapper_call(Head(callbacks), evty))
         \o run_callbacks_filtered(Tail(callbacks), evty)

\* the for loop of invoke, lines 59-61: the user callbacks run, in order
RECURSIVE run_callbacks(_, _)
run_callbacks(callbacks, evty) ==
    IF Len(callbacks) = 0 THEN <<>>
    ELSE wrapper_call(Head(callbacks), evty) \o run_callbacks(Tail(callbacks), evty)

\* invoke::<T>(&event): the user callbacks run by the call
invoke(reg, T) == IF T \in DOMAIN reg THEN run_callbacks(reg[T], T) ELSE <<>>

\* mutant: the lookup creates the type's entry (entry().or_insert) when missing
invoke_registry_entry(reg, T) ==
    IF T \in DOMAIN reg THEN reg ELSE HashMapInsert(reg, T, <<>>)

\* invoke, line 58: the registry after the call (get_mut inserts nothing)
invoke_registry(reg, T) == reg

get_subscriptions(reg, T) == IF T \in DOMAIN reg THEN Some(reg[T]) ELSE None

\* ------------------------------------------------------- StateQueue
\* The trait declares stage(&self, f) and commit(&mut self) (traits/src/lib.rs
\* lines 5-10); no implementation exists in the sources (the derive macro emits
\* an empty impl), so the bodies below follow section 4.3 of the specification.

\* a staged closure FnOnce(&mut Self): its identity <<producer, n>> and what it does
MutationOps == {"inc", "dbl", "restage"}
Mutation(who, n, op) == [id |-> <<who, n>>, op |-> op]
NoMutation == [id |-> <<0, 0>>, op |-> "none"]

\* the closure applied to the component value
apply_mutation(m, v) ==
    CASE m.op = "inc" -> (v + 1) % ValueMod
      [] m.op = "dbl" -> (v * 2) % ValueMod
      [] OTHER -> v

\* mutant: stage runs the closure on the component right away
stage_value_eager(v, m) == apply_mutation(m, v)

\* stage: the component value after the call (the closure is queued, not run)
stage_value(v, m) == v

\* mutant: commit skips the failed mutation and goes on with the rest
commit_on_failure_continues(rest) ==
    [snapshot |-> rest, cpc |-> "drain", outcome |-> "failed"]

\* commit when the mutation it runs fails: the rest of the captured queue is
\* dropped and the failure goes to the caller
commit_on_failure(rest) ==
    [snapshot |-> <<>>, cpc |-> "idle", outcome |-> "failed"]

\* mutant: an unguarded read-modify-write, the push is based on a stale read
stage_push_stale(queue, read, m) == Append(read, m)

\* stage: the queue after the guarded append of m
stage_push(queue, read, m) == Append(queue, m)

\* mutant: commit pops from the back of the captured queue
commit_take_back(snap) ==
    [m |-> snap[Len(snap)], rest |-> SubSeq(snap, 1, Len(snap) - 1)]

\* commit: the next mutation of the captured queue, and what remains
commit_take(snap) == [m |-> Head(snap), rest |-> Tail(snap)]

\* mutant: a mutation staged during the drain joins the queue being drained
drain_stage_live(queue, snap, m) == [staged |-> queue, snapshot |-> Append(snap, m)]

\* a mutation staged while commit drains goes to the queue, not to the snapshot
drain_stage(queue, snap, m) == [staged |-> Append(queue, m), snapshot |-> snap]

Ids(q) == [i \in 1..Len(q) |-> q[i].id]

\* stage calls made so far by producers 1..n
RECURSIVE StageCalls(_, _)
StageCalls(counts, n) == IF n = 0 THEN 0 ELSE counts[n] + StageCalls(counts, n - 1)

\* ------------------------------------------------------------- actions
Init ==
    /\ entities = EmptyMap
    /\ components = EmptyMap
    /\ last = [op |-> "new"]
    /\ registry = EmptyMap
    /\ subscribed = <<>>
    /\ evlast = [op |-> "new"]
    /\ value = 1
    /\ staged = <<>>
    /\ lock = 0
    /\ pc = [p \in Producers |-> "idle"]
    /\ pending = [p \in Producers |-> NoMutation]
    /\ seen = [p \in Producers |-> <<>>]
    /\ nstaged = [p \in Producers \cup {0} |-> 0]
    /\ cpc = "idle"
    /\ snapshot = <<>>
    /\ hist = [applied |-> <<>>, appliedNow |-> <<>>, taken |-> <<>>,
               valueAtBegin |-> 1, returned |-> {}, returnedAtBegin |-> {},
               during |-> {}, deferred |-> {}, committed |-> FALSE,
               overlap |-> FALSE, outcome |-> "none"]

AddComponent(e, T, x) ==
    /\ components' = add_component_index(components, e, T)
    /\ entities' = add_component_slot(entities, e, T, x)
    /\ last' = [op |-> "add", e |-> e, T |-> T, x |-> x,
                old |-> get_component(entities, T, e)]
    /\ UNCHANGED <<busVars, queueVars>>

GetComponent(e, T) ==
    /\ last' = [op |-> "get", e |-> e, T |-> T, res |-> get_component(entities, T, e)]
    /\ UNCHANGED <<entities, components, busVars, queueVars>>

GetComponentMut(e, T, x) ==
    /\ entities' = write_component_mut(entities, T, e, x)
    /\ last' = [op |-> "get_mut", e |-> e, T |-> T, x |-> x,
                res |-> get_component_mut(entities, T, e)]
    /\ UNCHANGED <<components, busVars, queueVars>>

GetEntitiesByComponent(T) ==
    /\ last' = [op |-> "by_component", T |-> T,
                res |-> get_entities_by_component(components, T)]
    /\ UNCHANGED <<entities, components, busVars, queueVars>>

GetEntitiesByComponents(tags) ==
    /\ last' = [op |-> "by_components", tags |-> tags,
                res |-> get_entities_by_components(components, tags)]
    /\ UNCHANGED <<entities, components, busVars, queueVars>>

Next ==
    \/ \E e \in Entities, T \in Tags, x \in Values : AddComponent(e, T, x)
    \/ \E e \in Entities, T \in Tags : GetComponent(e, T)
    \/ \E e \in Entities, T \in Tags, x \in Values : GetComponentMut(e, T, x)
    \/ \E T \in Tags : GetEntitiesByComponent(T)
    \/ \E tags \in TagLists : GetEntitiesByComponents(tags)

Spec == Init /\ [][Next]_vars

\* a registration made through entry point api; the user callback of the n-th
\* registration on the bus is callback n
Register(api, T, filter) ==
    /\ Len(subscribed) < MaxSubs
    /\ registry' = subscribe_with_filter(registry, T, Len(subscribed) + 1, filter)
    /\ subscribed' = Append(subscribed, [T |-> T, filter |-> filter, api |-> api])
    /\ evlast' = [op |-> api, T |-> T, filter |-> filter]
    /\ UNCHANGED <<storeVars, queueVars>>

SubscribeWithFilter(T, filter) == Register("subscribe_with_filter", T, filter)

\* subscribe, line 29
Subscribe(T) == Register("subscribe", T, subscribe_filter)

Invoke(T) ==
    /\ evlast' = [op |-> "invoke", T |-> T, calls |-> invoke(registry, T)]
    /\ registry' = invoke_registry(registry, T)
    /\ UNCHANGED <<subscribed, storeVars, queueVars>>

GetSubscriptions(T) ==
    /\ evlast' = [op |-> "get_subscriptions", T |-> T,
                  res |-> get_subscriptions(registry, T)]
    /\ UNCHANGED <<registry, subscribed, storeVars, queueVars>>

NextBus ==
    \/ \E T \in EventTypes : Subscribe(T)
    \/ \E T \in EventTypes, f \in Filters : SubscribeWithFilter(T, f)
    \/ \E T \in EventTypes : Invoke(T)
    \/ \E T \in EventTypes : GetSubscriptions(T)

SpecBus == Init /\ [][NextBus]_vars

\* --- the wrapper closure of a stored subscription, a Box<dyn FnMut(&dyn Any)>,
\* applied to an event of any dynamic type (invoke itself only ever passes an
\* event of the type whose list it walks)
WrapperCall(T, i, evty) ==
    /\ T \in DOMAIN registry
    /\ i \in 1..Len(registry[T])
    /\ evlast' = [op |-> "wrapper", T |-> evty, sub |-> registry[T][i],
                  calls |-> wrapper_call(registry[T][i], evty)]
    /\ UNCHANGED <<registry, subscribed, storeVars, queueVars>>

NextWrapper ==
    \/ NextBus
    \/ \E T \in EventTypes, i \in 1..MaxSubs, evty \in EventTypes : WrapperCall(T, i, evty)

SpecWrapper == Init /\ [][NextWrapper]_vars

\* --- StateQueue: stage(&self, f) by producer p, in three steps
\* the call: shared access only, so no commit (&mut self) is in progress
StageCall(p, op) ==
    /\ cpc = "idle"
    /\ pc[p] = "idle"
    /\ StageCalls(nstaged, NumProducers) < MaxStage
    /\ pc' = [pc EXCEPT ![p] = "wait"]
    /\ pending' = [pending EXCEPT ![p] = Mutation(p, nstaged[p] + 1, op)]
    /\ seen' = [seen EXCEPT ![p] = staged]
    /\ nstaged' = [nstaged EXCEPT ![p] = @ + 1]
    /\ UNCHANGED <<value, staged, lock, cpc, snapshot, hist, storeVars, busVars>>

\* the producer takes the queue's guard
StageLock(p) ==
    /\ pc[p] = "wait"
    /\ lock = 0
    /\ lock' = p
    /\ pc' = [pc EXCEPT ![p] = "locked"]
    /\ hist' = [hist EXCEPT !.overlap = @ \/ (\E q \in Producers \ {p} : pc[q] = "wait")]
    /\ UNCHANGED <<value, staged, pending, seen, nstaged, cpc, snapshot, storeVars, busVars>>

\* the producer appends, releases the guard and returns
StagePush(p) ==
    /\ pc[p] = "locked"
    /\ staged' = stage_push(staged, seen[p], pending[p])
    /\ lock' = 0
    /\ pc' = [pc EXCEPT ![p] = "idle"]
    /\ pending' = [pending EXCEPT ![p] = NoMutation]
    /\ seen' = [seen EXCEPT ![p] = <<>>]
    /\ value' = stage_value(value, pending[p])
    /\ hist' = [hist EXCEPT !.returned = @ \cup {pending[p].id}]
    /\ UNCHANGED <<nstaged, cpc, snapshot, storeVars, busVars>>

\* --- StateQueue: commit(&mut self)
\* exclusive access: no stage call is in progress; the queue is captured and emptied
CommitBegin ==
    /\ cpc = "idle"
    /\ \A p \in Producers : pc[p] = "idle"
    /\ cpc' = "drain"
    /\ snapshot' = staged
    /\ staged' = <<>>
    /\ hist' = [hist EXCEPT !.taken = staged, !.appliedNow = <<>>,
                            !.valueAtBegin = value,
                            !.returnedAtBegin = hist.returned,
                            !.deferred = hist.during, !.during = {},
                            !.outcome = "none"]
    /\ UNCHANGED <<value, lock, pc, pending, seen, nstaged, storeVars, busVars>>

\* the next captured mutation is applied; a "restage" mutation stages a follow-up
\* through the &mut Self it is given
CommitApply ==
    /\ cpc = "drain"
    /\ Len(snapshot) > 0
    /\ commit_take(snapshot).m.op # "fail"
    /\ LET t == commit_take(snapshot)
           follow == Mutation(0, nstaged[0] + 1, "inc")
           q == IF t.m.op = "restage"
                THEN drain_stage(staged, t.rest, follow)
                ELSE [staged |-> staged, snapshot |-> t.rest]
       IN  /\ value' = apply_mutation(t.m, value)
           /\ staged' = q.staged
           /\ snapshot' = q.snapshot
           /\ nstaged' = IF t.m.op = "restage"
                         THEN [nstaged EXCEPT ![0] = @ + 1] ELSE nstaged
           /\ hist' = [hist EXCEPT
                         !.applied = Append(@, t.m.id),
                         !.appliedNow = Append(@, t.m.id),
                         !.during = IF t.m.op = "restage" THEN @ \cup {follow.id} ELSE @,
                         !.returned = IF t.m.op = "restage" THEN @ \cup {follow.id} ELSE @]
    /\ UNCHANGED <<lock, pc, pending, seen, cpc, storeVars, busVars>>

\* the captured queue is exhausted: commit returns
CommitEnd ==
    /\ cpc = "drain"
    /\ Len(snapshot) = 0
    /\ cpc' = "idle"
    /\ hist' = [hist EXCEPT !.committed = TRUE,
                            !.outcome = IF @ = "none" THEN "ok" ELSE @]
    /\ UNCHANGED <<value, staged, lock, pc, pending, seen, nstaged, snapshot,
                   storeVars, busVars>>

NextQueue ==
    \/ \E p \in Producers, op \in MutationOps : StageCall(p, op)
    \/ \E p \in Producers : StageLock(p)
    \/ \E p \in Producers : StagePush(p)
    \/ CommitBegin
    \/ CommitApply
    \/ CommitEnd

SpecQueue == Init /\ [][NextQueue]_vars

\* --- StateQueue with mutations that fail when commit runs them
\* the next captured mutation fails: it changes nothing, and commit ends there
CommitFail ==
    /\ cpc = "drain"
    /\ Len(snapshot) > 0
    /\ commit_take(snapshot).m.op = "fail"
    /\ LET r == commit_on_failure(commit_take(snapshot).rest)
       IN  /\ snapshot' = r.snapshot
           /\ cpc' = r.cpc
           /\ hist' = [hist EXCEPT !.outcome = r.outcome]
    /\ UNCHANGED <<value, staged, lock, pc, pending, seen, nstaged, storeVars, busVars>>

NextQueueFail ==
    \/ NextQueue
    \/ \E p \in Producers : StageCall(p, "fail")
    \/ CommitFail

SpecQueueFail == Init /\ [][NextQueueFail]_vars

\* ======================================================= EntityRegistry claims
\* the tag has an entry in the reverse index
Known(T) == T \in DOMAIN components

\* the store holds a live (e, T) slot
Live(e, T) == <<e, T>> \in DOMAIN entities

\* an Option<set> read as a set, the absent result read as the empty set
SetOf(opt) == IF opt.kind = "Some" THEN opt.val ELSE {}

\* the set intersection of the per-tag get_entities_by_component sets
InterAll(tags) ==
    {e \in Entities : \A i \in 1..Len(tags) :
        e \in SetOf(get_entities_by_component(components, tags[i]))}

Perms(s) ==
    {[i \in 1..Len(s) |-> s[p[i]]] :
        p \in {q \in [1..Len(s) -> 1..Len(s)] :
                \A i, j \in 1..Len(s) : q[i] = q[j] => i = j}}

\* C1: in every reachable state, entity e is in the reverse-index set of tag T
\* if and only if the store holds a live (e, T) slot.
C1_IndexConsistent ==
    \A e \in Entities, T \in Tags : (Known(T) /\ e \in components[T]) <=> Live(e, T)

C1_Witness ==
    /\ last.op = "add"
    /\ \E T \in Tags : Known(T) /\ Cardinality(components[T]) = 2
    /\ \E e \in Entities, T \in Tags : Known(T) /\ ~Live(e, T)

\* C2: immediately after add_component(e, x: T), get_component<T>(e) is Some(x),
\* also when the slot already held another value (last write wins).
C2_AddThenGet ==
    last.op = "add" => get_component(entities, last.T, last.e) = Some(last.x)

C2_Witness ==
    /\ last.op = "add"
    /\ last.old.kind = "Some"
    /\ last.old.val # last.x
    /\ get_component(entities, last.T, last.e) = Some(last.x)

\* C4 as stated: for every non-empty tag list the multi-tag query returns the set
\* intersection of the per-tag sets (an unknown tag contributing the empty set).
C4_Original ==
    (last.op = "by_components" /\ Len(last.tags) > 0)
        => last.res = Some(InterAll(last.tags))

\* C4 amended: for a non-empty tag list, the query returns Some(intersection of the
\* per-tag sets) when every tag is known and None when some tag is unknown, and
\* the result is the same for every permutation of the list.
C4_Amended ==
    (last.op = "by_components" /\ Len(last.tags) > 0) =>
        /\ (\A i \in 1..Len(last.tags) : Known(last.tags[i]))
              => last.res = Some(InterAll(last.tags))
        /\ (\E i \in 1..Len(last.tags) : ~Known(last.tags[i]))
              => last.res = None
        /\ \A p \in Perms(last.tags) :
              get_entities_by_components(components, p) = last.res

C4_Witness ==
    /\ last.op = "by_components"
    /\ Cardinality(Range(last.tags)) = 3
    /\ last.res.kind = "Some"
    /\ last.res.val # {}
    /\ \E i \in 1..Len(last.tags) : components[last.tags[i]] # last.res.val

\* C5 as stated: the multi-tag query with an empty tag list returns the empty set
\* and does not panic.
C5_EmptyListEmptySet ==
    (last.op = "by_components" /\ Len(last.tags) = 0) => last.res = Some({})

\* C6 as stated: a query on a tag with no registered entity returns the empty set,
\* for the single-type query and for a multi-tag list holding such a tag.
C6_Original ==
    /\ (last.op = "by_component" /\ ~Known(last.T)) => last.res = Some({})
    /\ (last.op = "by_components" /\ Len(last.tags) > 0
          /\ \E i \in 1..Len(last.tags) : ~Known(last.tags[i]))
            => last.res = Some({})

\* C6 amended: a query on a tag with no registered entity returns the absent
\* result None and never panics, for the single-type query and for a non-empty
\* multi-tag list holding such a tag.
C6_Amended ==
    /\ (last.op = "by_component" /\ ~Known(last.T)) => last.res = None
    /\ (last.op = "by_components" /\ Len(last.tags) > 0
          /\ \E i \in 1..Len(last.tags) : ~Known(last.tags[i]))
            => last.res = None

C6_Witness ==
    /\ last.op = "by_components"
    /\ Len(last.tags) >= 2
    /\ Known(last.tags[1])
    /\ \E i \in 1..Len(last.tags) : ~Known(last.tags[i])
    /\ last.res = None

\* ======================================================== EventRegistry claims
\* the callbacks registered for event type E, in registration order
RegisteredFor(E) ==
    SelectSeq([i \in 1..Len(subscribed) |-> i], LAMBDA i : subscribed[i].T = E)

\* C7: each publish of an event of type E invokes every subscription registered
\* for E exactly once, in registration order, and no subscription registered for
\* another event type.
C7_PublishOrder ==
    evlast.op = "invoke" => evlast.calls = RegisteredFor(evlast.T)

C7_Witness ==
    /\ evlast.op = "invoke"
    /\ Len(evlast.calls) >= 2
    /\ \E i \in 1..Len(subscribed) :
          /\ subscribed[i].T # evlast.T
          /\ i < evlast.calls[Len(evlast.calls)]
    /\ \E i \in 1..Len(subscribed) :
          subscribed[i].T = evlast.T /\ subscribed[i].filter # None

\* =========================================================== StateQueue claims
\* number of occurrences of x in sequence q
Count(x, q) == Cardinality({i \in 1..Len(q) : q[i] = x})

\* the value after applying the mutations of q, first to last, to v
RECURSIVE ApplyAll(_, _)
ApplyAll(q, v) == IF Len(q) = 0 THEN v ELSE ApplyAll(Tail(q), apply_mutation(Head(q), v))

CommitReturned == cpc = "idle" /\ hist.committed

\* C8: a commit applies every mutation that was queued when it was called exactly
\* once and in enqueue order; afterwards the queue holds none of them and no later
\* commit applies them again.
C8_CommitFifoOnce ==
    /\ CommitReturned =>
          /\ hist.appliedNow = Ids(hist.taken)
          /\ value = ApplyAll(hist.taken, hist.valueAtBegin)
          /\ \A i \in 1..Len(hist.taken) : Count(hist.taken[i].id, Ids(staged)) = 0
    /\ \A i \in 1..Len(hist.applied) : Count(hist.applied[i], hist.applied) = 1

C8_Witness ==
    /\ CommitReturned
    /\ Len(hist.taken) >= 2
    /\ hist.taken[1].op = "inc" /\ hist.taken[2].op = "dbl"
    /\ value # ApplyAll(<<hist.taken[2], hist.taken[1]>>, hist.valueAtBegin)
    /\ Len(hist.applied) > Len(hist.appliedNow)

\* C9: a mutation staged while a commit is draining is not applied by that commit;
\* it stays queued and the next commit applies it.
C9_DrainSnapshot ==
    /\ \A id \in hist.during : Count(id, hist.appliedNow) = 0
    /\ \A id \in hist.during : Count(id, Ids(staged)) = 1
    /\ CommitReturned => \A id \in hist.deferred : Count(id, hist.appliedNow) = 1

C9_Witness ==
    /\ CommitReturned
    /\ hist.deferred # {}
    /\ \A id \in hist.deferred : Count(id, hist.appliedNow) = 1

\* C10: under every interleaving of concurrent stage calls no staged mutation is
\* lost or duplicated, each producer's mutations keep their relative order in the
\* queue, and the next commit applies each of them exactly once.
C10_ConcurrentStage ==
    /\ \A id \in hist.returned :
          Count(id, Ids(staged)) + Count(id, Ids(snapshot)) + Count(id, hist.applied) = 1
    /\ \A i, j \in 1..Len(staged) :
          (i < j /\ staged[i].id[1] = staged[j].id[1]) => staged[i].id[2] < staged[j].id[2]
    /\ CommitReturned =>
          \A id \in hist.returnedAtBegin : Count(id, hist.applied) = 1

C10_Witness ==
    /\ CommitReturned
    /\ hist.overlap
    /\ Len(hist.appliedNow) >= 3
    /\ \E i, j \in 1..Len(hist.appliedNow) :
          /\ i < j
          /\ hist.appliedNow[i][1] = 2 /\ hist.appliedNow[j][1] = 1
    /\ \E i, j \in 1..Len(hist.appliedNow) :
          /\ i < j
          /\ hist.appliedNow[i][1] = hist.appliedNow[j][1]

\* C11: stage never changes the component value; the value changes only while a
\* commit is draining, so between a stage call and the next commit a read returns
\* the value from before the stage.
C11_StageFrame ==
    [][value' # value => (cpc = "drain" /\ cpc' = "drain")]_vars

C11_Witness ==
    /\ cpc = "idle"
    /\ \A p \in Producers : pc[p] = "idle"
    /\ Len(staged) >= 2
    /\ ApplyAll(staged, value) # value
    /\ hist.committed
    /\ value = ApplyAll(hist.taken, hist.valueAtBegin)

\* the mutations of q before its first failing one
RECURSIVE FailPrefix(_)
FailPrefix(q) ==
    IF Len(q) = 0 \/ Head(q).op = "fail" THEN <<>>
    ELSE <<Head(q)>> \o FailPrefix(Tail(q))

\* C12: when a staged mutation fails during commit, the commit ends with the
\* failure, the mutations after it in that drain are not applied, and the
\* component holds the state left by the last mutation that was applied.
C12_FailureAborts ==
    hist.outcome = "failed" =>
        /\ cpc = "idle"
        /\ Len(snapshot) = 0
        /\ hist.appliedNow = Ids(FailPrefix(hist.taken))
        /\ value = ApplyAll(FailPrefix(hist.taken), hist.valueAtBegin)

C12_Witness ==
    /\ hist.outcome = "failed"
    /\ Len(hist.taken) = 3
    /\ hist.taken[1].op = "inc"
    /\ hist.taken[2].op = "fail"
    /\ hist.taken[3].op = "dbl"
    /\ value = (hist.valueAtBegin + 1) % ValueMod

\* the registry with every stored filter replaced by None
EraseFilters(reg) ==
    [T \in DOMAIN reg |-> [i \in 1..Len(reg[T]) |-> [reg[T][i] EXCEPT !.filter = None]]]

\* C13: publish never consults filters: a subscription stored with a filter is
\* invoked on every publish of its event type, whatever the filter holds, exactly
\* as if it had been stored without one.
C13_FiltersIgnored ==
    evlast.op = "invoke" =>
        /\ evlast.calls = invoke(EraseFilters(registry), evlast.T)
        /\ \A i \in 1..Len(subscribed) :
              (subscribed[i].T = evlast.T /\ subscribed[i].filter # None)
                  => Count(i, evlast.calls) = 1

C13_Witness ==
    /\ evlast.op = "invoke"
    /\ evlast.T = "MyEvent"
    /\ \E i, j, k \in 1..Len(subscribed) :
          /\ subscribed[i] = [T |-> "MyEvent", filter |-> Some(<<"i32", "i64">>),
                               api |-> "subscribe_with_filter"]
          /\ subscribed[j] = [T |-> "MyEvent", filter |-> Some(<<>>),
                               api |-> "subscribe_with_filter"]
          /\ subscribed[k] = [T |-> "MyEvent", filter |-> None, api |-> "subscribe"]
    /\ Len(evlast.calls) = 3

\* C14: get_subscriptions<E> returns the subscriptions registered for E in
\* registration order, the i-th entry carrying unchanged the filter given to the
\* i-th registration, and None for one registered with subscribe<E>.
C14_FilterRoundTrip ==
    (evlast.op = "get_subscriptions" /\ Len(RegisteredFor(evlast.T)) > 0) =>
        /\ evlast.res.kind = "Some"
        /\ Len(evlast.res.val) = Len(RegisteredFor(evlast.T))
        /\ \A i \in 1..Len(RegisteredFor(evlast.T)) :
              LET n == RegisteredFor(evlast.T)[i]
              IN  /\ evlast.res.val[i].cb = n
                  /\ evlast.res.val[i].filter = subscribed[n].filter
                  /\ subscribed[n].api = "subscribe" => evlast.res.val[i].filter = None

C14_Witness ==
    /\ evlast.op = "get_subscriptions"
    /\ evlast.res.kind = "Some"
    /\ Len(evlast.res.val) = 2
    /\ evlast.res.val[1].filter = Some(<<"i32", "i64">>)
    /\ evlast.res.val[2].filter = None
    /\ subscribed[evlast.res.val[2].cb].api = "subscribe"
    /\ Len(subscribed) = 3

\* C16: publishing an event of a type with no subscriber invokes no callback and
\* leaves the bus unchanged: no map entry appears for the type and every other
\* type's list stays as it was.
C16_PublishNoSubscribers ==
    [][(evlast'.op = "invoke" /\ Len(RegisteredFor(evlast'.T)) = 0) =>
          /\ evlast'.calls = <<>>
          /\ registry' = registry
          /\ evlast'.T \notin DOMAIN registry']_vars

C16_Witness ==
    /\ evlast.op = "invoke"
    /\ Len(RegisteredFor(evlast.T)) = 0
    /\ evlast.calls = <<>>
    /\ evlast.T \notin DOMAIN registry
    /\ Cardinality(DOMAIN registry) = 2

\* C17: under any sequence of subscribe, subscribe_with_filter, publish and
\* get_subscriptions calls, each event type's subscription list only grows by
\* appending at its end: earlier subscriptions keep their position and filter.
C17_SubscriptionsStay ==
    [][\A T \in DOMAIN registry :
          /\ T \in DOMAIN registry'
          /\ Len(registry'[T]) >= Len(registry[T])
          /\ SubSeq(registry'[T], 1, Len(registry[T])) = registry[T]]_vars

C17_Witness ==
    /\ evlast.op = "invoke"
    /\ \E T \in DOMAIN registry :
          /\ Len(registry[T]) = 2
          /\ registry[T][1].filter # None
          /\ T # evlast.T
    /\ Len(subscribed) = 3

\* C19: a user callback registered for event type E is only ever run with an
\* event of dynamic type E; its wrapper runs nothing when handed an event of
\* another type.
C19_WrapperChecksType ==
    evlast.op \in {"invoke", "wrapper"} =>
        /\ \A k \in 1..Len(evlast.calls) : subscribed[evlast.calls[k]].T = evlast.T
        /\ (evlast.op = "wrapper" /\ evlast.sub.ty # evlast.T) => evlast.calls = <<>>
        /\ (evlast.op = "wrapper" /\ evlast.sub.ty = evlast.T)
              => evlast.calls = <<evlast.sub.cb>>

C19_Witness ==
    /\ evlast.op = "wrapper"
    /\ evlast.sub.ty = "MyEvent"
    /\ evlast.T = "i32"
    /\ evlast.calls = <<>>
    /\ "i32" \in DOMAIN registry

\* C15: get_component and get_component_mut on a missing entity or a missing
\* (e, T) slot return None, never fail, and leave the slots and the reverse
\* index as they were: a lookup creates neither a slot nor an index entry.
C15_MissingLookup ==
    [][(last'.op \in {"get", "get_mut"} /\ ~Live(last'.e, last'.T)) =>
          /\ last'.res = None
          /\ entities' = entities
          /\ components' = components]_vars

C15_Witness ==
    /\ last.op = "get_mut"
    /\ ~Live(last.e, last.T)
    /\ last.res = None
    /\ Known(last.T)
    /\ \E T \in Tags : Live(last.e, T)

\* C18: every slot stored under (e, tag) holds a value of the dynamic type tag
\* names, so the checked downcast of get_component never fails on a present
\* slot: get_component returns None only when the slot is absent.
C18_SlotTypeMatchesTag ==
    /\ \A k \in DOMAIN entities :
          /\ entities[k].dyn = k[2]
          /\ get_component(entities, k[2], k[1]).kind = "Some"
          /\ get_component_mut(entities, k[2], k[1]).kind = "Some"
    /\ (last.op \in {"get", "get_mut"} /\ last.res = None) => ~Live(last.e, last.T)

C18_Witness ==
    /\ last.op = "get"
    /\ last.res.kind = "Some"
    /\ \E T \in Tags : T # last.T /\ Live(last.e, T)
    /\ \E e \in Entities : ~Live(e, last.T)

\* C20: a write through get_component_mut<T>(e) changes only the (e, T) slot:
\* the next get_component<T>(e) sees it, every other slot keeps its value, no
\* slot appears or disappears, and the reverse index is unchanged.
C20_WriteFrame ==
    [][(last'.op = "get_mut" /\ last'.res.kind = "Some") =>
          /\ get_component(entities', last'.T, last'.e) = Some(last'.x)
          /\ DOMAIN entities' = DOMAIN entities
          /\ \A k \in DOMAIN entities : k # <<last'.e, last'.T>> => entities'[k] = entities[k]
          /\ components' = components]_vars

C20_Witness ==
    /\ last.op = "get_mut"
    /\ last.res.kind = "Some"
    /\ last.res.val # last.x
    /\ get_component(entities, last.T, last.e) = Some(last.x)
    /\ \E T \in Tags : T # last.T /\ get_component(entities, T, last.e).kind = "Some"
                       /\ get_component(entities, T, last.e) # Some(last.x)
    /\ \E e \in Entities : e # last.e /\ get_component(entities, last.T, e).kind = "Some"
                           /\ get_component(entities, last.T, e) # Some(last.x)

\* C21: add_component(e, x: T) changes only the (e, T) slot and T's reverse-index
\* set: every other slot keeps its value, no other slot appears or disappears,
\* every other tag's set is unchanged, and T's set is its old set plus e.
C21_AddFrame ==
    [][last'.op = "add" =>
          /\ DOMAIN entities' = DOMAIN entities \cup {<<last'.e, last'.T>>}
          /\ \A k \in DOMAIN entities :
                k # <<last'.e, last'.T>> => entities'[k] = entities[k]
          /\ DOMAIN components' = DOMAIN components \cup {last'.T}
          /\ \A U \in DOMAIN components : U # last'.T => components'[U] = components[U]
          /\ components'[last'.T] =
                SetOf(get_entities_by_component(components, last'.T)) \cup {last'.e}]_vars

C21_Witness ==
    /\ last.op = "add"
    /\ last.old.kind = "None"
    /\ get_component(entities, last.T, last.e) = Some(last.x)
    /\ \E T \in Tags : T # last.T /\ get_component(entities, T, last.e).kind = "Some"
                       /\ get_component(entities, T, last.e) # Some(last.x)
    /\ \E e \in Entities : e # last.e /\ get_component(entities, last.T, e).kind = "Some"
                           /\ get_component(entities, last.T, e) # Some(last.x)
    /\ \E U \in DOMAIN components : U # last.T /\ components[U] # components[last.T]

\* C22: in every reachable state and for every tag T, the multi-tag query on the
\* one-element list [T] returns what the single-type query on T returns, and
\* repeating a tag of a non-empty list does not change the multi-tag result.
C22_SingleAndRepeat ==
    /\ \A T \in Tags :
          /\ get_entities_by_components(components, <<T>>)
                = get_entities_by_component(components, T)
          /\ get_entities_by_components(components, <<T, T>>)
                = get_entities_by_component(components, T)
    /\ (last.op = "by_components" /\ Len(last.tags) > 0) =>
          \A i \in 1..Len(last.tags) :
              /\ get_entities_by_components(components, Append(last.tags, last.tags[i]))
                    = last.res
              /\ get_entities_by_components(components, <<last.tags[i]>> \o last.tags)
                    = last.res

C22_Witness ==
    /\ last.op = "by_components"
    /\ Len(last.tags) = 2
    /\ last.tags[1] = last.tags[2]
    /\ last.res.kind = "Some"
    /\ last.res.val # {}
    /\ last.res.val # Entities
    /\ last.res = get_entities_by_component(components, last.tags[1])
    /\ \E U \in Tags : ~Known(U)

====
